---- MODULE Spec2Model ----
(***************************************************************************)
(* Model of the console programs under src/practical:                      *)
(*   q2_hospital.cpp      Doctor / Patient records with static counters    *)
(*   q3_transactions.cpp  the transaction registry and its menu loop       *)
(*   q4_library.cpp       Book / Patron checkout                           *)
(* Each program is a process of its own; each has its own specification.   *)
(* Standard input is modelled at the level of the tokens the formatted     *)
(* extractions consume: every extraction draws the next token from the     *)
(* environment, and the stream's failbit is program state.                 *)
(***************************************************************************)
EXTENDS Integers, Sequences, FiniteSets, TLC

\* ------------------------------------------------------------------ bounds
\* Cap on the registry's length: choices 1 and 2 are not taken beyond it.
MaxTxns == 3
\* Largest record count typed at the hospital program's first prompt.
MaxRecords == 3
\* Books and patrons of the library scenario.
NumBooks == 3
NumPatrons == 3

\* ------------------------------------------------------- program constants
\* Largest int: what operator>>(int&) stores when the digits overflow.
INT_MAX == 2147483647
\* Default precision of an ostream: significant digits of a printed double.
PRECISION == 6

\* --------------------------------------------------------- memory cells
\* An int or double object: the bits it holds, and whether the program has
\* ever given it a value.  An object that was never given one holds
\* arbitrary bits (set = FALSE); reading it is undefined behaviour, and the
\* value read is whatever the bits are.
GarbageInts == {-1, 1, 4}
Value(v) == [set |-> TRUE, val |-> v]
Indeterminate == {[set |-> FALSE, val |-> g] : g \in GarbageInts}

\* ------------------------------------------------------- standard input
\* What the user may type next, as seen by each kind of extraction.
\* "bad" is text that is no number, "big" a number too large for an int,
\* "eof" the end of the input.
IntTokens(S) == {[kind |-> "num", val |-> v] : v \in S}
                   \cup {[kind |-> "bad", val |-> 0],
                         [kind |-> "big", val |-> 0],
                         [kind |-> "eof", val |-> 0]}
DoubleTokens(S) == {[kind |-> "num", val |-> v] : v \in S}
                      \cup {[kind |-> "bad", val |-> 0],
                            [kind |-> "eof", val |-> 0]}
TextTokens(S) == {[kind |-> "text", val |-> s] : s \in S}
                    \cup {[kind |-> "eof", val |-> ""]}

\* cin >> x for an int (or double) x.  With failbit already set, or at the
\* end of the input, the sentry fails and x is left as it was.  Text that is
\* no number stores zero, digits that overflow store the largest value; both
\* set failbit.  how: what became of the extraction.
ExtractNum(fail, tok, old) ==
    IF fail \/ tok.kind = "eof"
      THEN [cell |-> old, fail |-> TRUE, how |-> "skipped"]
    ELSE IF tok.kind = "bad"
      THEN [cell |-> Value(0), fail |-> TRUE, how |-> "failed"]
    ELSE IF tok.kind = "big"
      THEN [cell |-> Value(INT_MAX), fail |-> TRUE, how |-> "failed"]
    ELSE [cell |-> Value(tok.val), fail |-> FALSE, how |-> "extracted"]

\* cin >> s for a string s, and cin.ignore(); getline(cin, s): with failbit
\* set, or at the end of the input, s is left as it was and failbit is set.
ExtractText(fail, tok, old) ==
    IF fail \/ tok.kind = "eof"
      THEN [val |-> old, fail |-> TRUE]
      ELSE [val |-> tok.val, fail |-> FALSE]

\* ------------------------------------------------------ printing a double
RECURSIVE Pow10(_)
Pow10(k) == IF k = 0 THEN 1 ELSE 10 * Pow10(k - 1)

RECURSIVE NumDigits(_)
NumDigits(a) == IF a < 10 THEN 1 ELSE 1 + NumDigits(a \div 10)

\* The number a reader takes from the text cout << a writes for a whole,
\* non-negative double a: a itself up to PRECISION digits, and beyond that
\* a rounded to PRECISION significant digits, ties to even.
FormatAmount(a) ==
    IF NumDigits(a) <= PRECISION THEN a
    ELSE LET unit == Pow10(NumDigits(a) - PRECISION)
             q == a \div unit
             r == a % unit
             up == (2 * r > unit) \/ (2 * r = unit /\ q % 2 = 1)
         IN  (IF up THEN q + 1 ELSE q) * unit

\* =================================================== q3_transactions.cpp
VARIABLES
    transactions,   \* vector<Transaction*>: the registry, in push_back order
    choice,         \* main's int choice
    cin_fail,       \* failbit of std::cin
    phase,          \* "Running" in the do-while, "Exiting" after it, "Terminated"
    console,        \* what the latest iteration wrote: message and records shown
    got,            \* what became of the latest cin >> choice
    freed           \* per registry entry, how many times it was deleted

txnVars == <<transactions, choice, cin_fail, phase, console, got, freed>>

ChoiceTokens == IntTokens({1, 2, 3, 4, 99})
IdTokens == IntTokens({7})
DateTokens == TextTokens({"2024-01-01"})
LineTokens == TextTokens({"Salary"})
AmountTokens == DoubleTokens({250, 1234565, 1234567})

\* new IncomeTransaction(): the class has no user-provided constructor, so
\* the () value-initializes it: the object is zeroed, the strings are empty.
NewIncomeTransaction ==
    [kind |-> "Income", transaction_ID |-> Value(0), date |-> "",
     source |-> "", amount |-> Value(0)]

NewExpenseTransaction ==
    [kind |-> "Expense", transaction_ID |-> Value(0), date |-> "",
     category |-> "", amount |-> Value(0)]

\* IncomeTransaction::recordTransaction on t, the stream's failbit being fail.
IncomeRecordTransaction(t, fail, idTok, dateTok, lineTok, amtTok) ==
    LET a == ExtractNum(fail, idTok, t.transaction_ID)
        b == ExtractText(a.fail, dateTok, t.date)
        c == ExtractText(b.fail, lineTok, t.source)
        d == ExtractNum(c.fail, amtTok, t.amount)
    IN  [t |-> [t EXCEPT !.transaction_ID = a.cell, !.date = b.val,
                         !.source = c.val, !.amount = d.cell],
         fail |-> d.fail]

ExpenseRecordTransaction(t, fail, idTok, dateTok, lineTok, amtTok) ==
    LET a == ExtractNum(fail, idTok, t.transaction_ID)
        b == ExtractText(a.fail, dateTok, t.date)
        c == ExtractText(b.fail, lineTok, t.category)
        d == ExtractNum(c.fail, amtTok, t.amount)
    IN  [t |-> [t EXCEPT !.transaction_ID = a.cell, !.date = b.val,
                         !.category = c.val, !.amount = d.cell],
         fail |-> d.fail]

\* displayInfo: the label and the four fields as a reader of the output
\* takes them.
IncomeDisplayInfo(t) ==
    [label |-> "[Income Transaction]", transaction_ID |-> t.transaction_ID.val,
     date |-> t.date, source |-> t.source,
     amount |-> FormatAmount(t.amount.val)]

ExpenseDisplayInfo(t) ==
    [label |-> "[Expense Transaction]", transaction_ID |-> t.transaction_ID.val,
     date |-> t.date, category |-> t.category,
     amount |-> FormatAmount(t.amount.val)]

\* tr->displayInfo(): virtual dispatch on the record's class.
DisplayInfo(t) ==
    IF t.kind = "Income" THEN IncomeDisplayInfo(t) ELSE ExpenseDisplayInfo(t)

\* A registry that inserts at the front.
PushFront(v, t) == <<t>> \o v

\* transactions.push_back(t)
PushBack(v, t) == Append(v, t)

\* for (auto& tr : transactions) tr->displayInfo();
DisplayAll(v) == [i \in 1..Len(v) |-> DisplayInfo(v[i])]

\* for (auto& tr : transactions) delete tr;
FreeMemory(v, f) == [i \in 1..Len(v) |-> f[i] + 1]

\* cin >> choice
ReadChoice(tok) == ExtractNum(cin_fail, tok, choice)

\* A loop test that ends on every choice from 4 up: while (choice < 4).
LoopConditionBelowExit(c) == c.val < 4

\* while (choice != 4)
LoopCondition(c) == c.val # 4

AfterIteration(c) == IF LoopCondition(c) THEN "Running" ELSE "Exiting"

Quiet(msg) == [msg |-> msg, shown |-> <<>>]

\* main's locals as it enters the do-while; choice is not initialized.
TxnInit ==
    /\ transactions = <<>>
    /\ choice \in Indeterminate
    /\ cin_fail = FALSE
    /\ phase = "Running"
    /\ console = Quiet("")
    /\ got = "none"
    /\ freed = <<>>

\* One pass of the do-while with the switch taking case 1.
CaseIncome ==
    /\ phase = "Running"
    /\ Len(transactions) < MaxTxns
    /\ \E tok \in ChoiceTokens :
         LET r == ReadChoice(tok) IN
         /\ r.cell.val = 1
         /\ \E idTok \in IdTokens, dateTok \in DateTokens,
               lineTok \in LineTokens, amtTok \in AmountTokens :
              LET p == IncomeRecordTransaction(NewIncomeTransaction, r.fail,
                                               idTok, dateTok, lineTok, amtTok)
              IN  /\ transactions' = PushBack(transactions, p.t)
                  /\ cin_fail' = p.fail
         /\ freed' = Append(freed, 0)
         /\ choice' = r.cell
         /\ got' = r.how
         /\ console' = Quiet("--- Recording Income Transaction ---")
         /\ phase' = AfterIteration(r.cell)

\* One pass of the do-while with the switch taking case 2.
CaseExpense ==
    /\ phase = "Running"
    /\ Len(transactions) < MaxTxns
    /\ \E tok \in ChoiceTokens :
         LET r == ReadChoice(tok) IN
         /\ r.cell.val = 2
         /\ \E idTok \in IdTokens, dateTok \in DateTokens,
               lineTok \in LineTokens, amtTok \in AmountTokens :
              LET p == ExpenseRecordTransaction(NewExpenseTransaction, r.fail,
                                                idTok, dateTok, lineTok, amtTok)
              IN  /\ transactions' = PushBack(transactions, p.t)
                  /\ cin_fail' = p.fail
         /\ freed' = Append(freed, 0)
         /\ choice' = r.cell
         /\ got' = r.how
         /\ console' = Quiet("--- Recording Expense Transaction ---")
         /\ phase' = AfterIteration(r.cell)

\* One pass of the do-while with the switch taking case 3.
CaseDisplay ==
    /\ phase = "Running"
    /\ \E tok \in ChoiceTokens :
         LET r == ReadChoice(tok) IN
         /\ r.cell.val = 3
         /\ console' = [msg |-> "===== Transaction Records =====",
                        shown |-> DisplayAll(transactions)]
         /\ cin_fail' = r.fail
         /\ choice' = r.cell
         /\ got' = r.how
         /\ phase' = AfterIteration(r.cell)
    /\ UNCHANGED <<transactions, freed>>

\* One pass of the do-while with the switch taking case 4.
CaseExit ==
    /\ phase = "Running"
    /\ \E tok \in ChoiceTokens :
         LET r == ReadChoice(tok) IN
         /\ r.cell.val = 4
         /\ console' = Quiet("Exiting...")
         /\ cin_fail' = r.fail
         /\ choice' = r.cell
         /\ got' = r.how
         /\ phase' = AfterIteration(r.cell)
    /\ UNCHANGED <<transactions, freed>>

\* One pass of the do-while with the switch taking the default case.
CaseDefault ==
    /\ phase = "Running"
    /\ \E tok \in ChoiceTokens :
         LET r == ReadChoice(tok) IN
         /\ r.cell.val \notin {1, 2, 3, 4}
         /\ console' = Quiet("Invalid choice! Try again.")
         /\ cin_fail' = r.fail
         /\ choice' = r.cell
         /\ got' = r.how
         /\ phase' = AfterIteration(r.cell)
    /\ UNCHANGED <<transactions, freed>>

\* After the loop: delete every entry, return 0.
TxnCleanup ==
    /\ phase = "Exiting"
    /\ freed' = FreeMemory(transactions, freed)
    /\ phase' = "Terminated"
    /\ UNCHANGED <<transactions, choice, cin_fail, console, got>>



\* ====================================================== q2_hospital.cpp
VARIABLES
    n,              \* main's int n
    people,         \* Person* people[n], the entries filled so far
    doctor_count,   \* Doctor::doctor_count
    patient_count,  \* Patient::patient_count
    populated,      \* how many getdata() calls have returned
    hcin_fail,      \* failbit of std::cin
    hphase,         \* where main is
    hout,           \* the lines written after "--- Records ---"
    hfreed          \* per record, how many times it was deleted

hospVars == <<n, people, doctor_count, patient_count, populated, hcin_fail,
              hphase, hout, hfreed>>

\* A count too large for the stack is not among the inputs.
CountTokens == {t \in IntTokens(-1..MaxRecords) : t.kind # "big"}
KindTokens == IntTokens({1, 2})
NameTokens == TextTokens({"Asha"})
AgeTokens == IntTokens({34})
SpecialistTokens == IntTokens({7})
AdmissionTokens == TextTokens({"2024-01-01"})

\* A constructor that numbers with the counter's old value:
\* doctor_id = doctor_count++.
DoctorCtorPostIncrement(count, a0, s0) ==
    [obj |-> [kind |-> "Doctor", name |-> "", age |-> a0,
              doctor_specialist |-> s0, doctor_id |-> count],
     count |-> count + 1]

\* Doctor::Doctor() with the counter at count: doctor_id = ++doctor_count.
\* age and doctor_specialist are not initialized: they hold a0 and s0.
DoctorCtor(count, a0, s0) ==
    [obj |-> [kind |-> "Doctor", name |-> "", age |-> a0,
              doctor_specialist |-> s0, doctor_id |-> count + 1],
     count |-> count + 1]

\* Patient::Patient() with the counter at count: patient_id = ++patient_count.
PatientCtor(count, a0) ==
    [obj |-> [kind |-> "Patient", name |-> "", age |-> a0,
              admission_date |-> "", patient_id |-> count + 1],
     count |-> count + 1]

\* Doctor::getdata
DoctorGetdata(d, fail, nameTok, ageTok, specTok) ==
    LET a == ExtractText(fail, nameTok, d.name)
        b == ExtractNum(a.fail, ageTok, d.age)
        c == ExtractNum(b.fail, specTok, d.doctor_specialist)
    IN  [obj |-> [d EXCEPT !.name = a.val, !.age = b.cell,
                           !.doctor_specialist = c.cell],
         fail |-> c.fail]

\* Patient::getdata
PatientGetdata(d, fail, nameTok, ageTok, dateTok) ==
    LET a == ExtractText(fail, nameTok, d.name)
        b == ExtractNum(a.fail, ageTok, d.age)
        c == ExtractText(b.fail, dateTok, d.admission_date)
    IN  [obj |-> [d EXCEPT !.name = a.val, !.age = b.cell,
                           !.admission_date = c.val],
         fail |-> c.fail]

\* Doctor::putdata
DoctorPutdata(d) ==
    [label |-> "Doctor", name |-> d.name, age |-> d.age.val,
     doctor_specialist |-> d.doctor_specialist.val, doctor_id |-> d.doctor_id]

\* Patient::putdata
PatientPutdata(d) ==
    [label |-> "Patient", name |-> d.name, age |-> d.age.val,
     admission_date |-> d.admission_date, patient_id |-> d.patient_id]

\* people[i]->putdata()
Putdata(d) == IF d.kind = "Doctor" THEN DoctorPutdata(d) ELSE PatientPutdata(d)

\* for (int i = 0; i < n; i++) people[i]->putdata();
PutAll(ps, cnt) == [i \in 1..(IF cnt < 0 THEN 0 ELSE cnt) |-> Putdata(ps[i])]

\* for (int i = 0; i < n; i++) delete people[i];
DeleteAll(f, cnt) == [i \in DOMAIN f |-> IF i <= cnt THEN f[i] + 1 ELSE f[i]]

\* An entry loop that runs once too often: i <= n.
EntryLoopConditionInclusive(i, cnt) == i <= cnt

\* the entry loop's test, i being the number of entries filled so far
EntryLoopCondition(i, cnt) == i < cnt

HospInit ==
    /\ n \in Indeterminate
    /\ people = <<>>
    /\ doctor_count = 0
    /\ patient_count = 0
    /\ populated = 0
    /\ hcin_fail = FALSE
    /\ hphase = "ReadCount"
    /\ hout = <<>>
    /\ hfreed = <<>>

\* cin >> n; Person* people[n];  An array of negative size is undefined:
\* the program goes on with the array unused, or dies.
ReadCount ==
    /\ hphase = "ReadCount"
    /\ \E tok \in CountTokens :
         LET r == ExtractNum(hcin_fail, tok, n) IN
         /\ n' = r.cell
         /\ hcin_fail' = r.fail
         /\ hphase' \in (IF r.cell.val < 0 THEN {"Entry", "Crashed"} ELSE {"Entry"})
    /\ UNCHANGED <<people, doctor_count, patient_count, populated, hout, hfreed>>

\* int choice; cin >> choice; choice == 1: people[i] = new Doctor();
EntryNewDoctor ==
    /\ hphase = "Entry"
    /\ EntryLoopCondition(Len(people), n.val)
    /\ \E tok \in KindTokens, c0 \in Indeterminate :
         LET r == ExtractNum(hcin_fail, tok, c0) IN
         /\ r.cell.val = 1
         /\ hcin_fail' = r.fail
    /\ \E a0 \in Indeterminate, s0 \in Indeterminate :
         LET d == DoctorCtor(doctor_count, a0, s0) IN
         /\ people' = Append(people, d.obj)
         /\ doctor_count' = d.count
    /\ hfreed' = Append(hfreed, 0)
    /\ hphase' = "Getdata"
    /\ UNCHANGED <<n, patient_count, populated, hout>>

\* int choice; cin >> choice; else: people[i] = new Patient();
EntryNewPatient ==
    /\ hphase = "Entry"
    /\ EntryLoopCondition(Len(people), n.val)
    /\ \E tok \in KindTokens, c0 \in Indeterminate :
         LET r == ExtractNum(hcin_fail, tok, c0) IN
         /\ r.cell.val # 1
         /\ hcin_fail' = r.fail
    /\ \E a0 \in Indeterminate :
         LET d == PatientCtor(patient_count, a0) IN
         /\ people' = Append(people, d.obj)
         /\ patient_count' = d.count
    /\ hfreed' = Append(hfreed, 0)
    /\ hphase' = "Getdata"
    /\ UNCHANGED <<n, doctor_count, populated, hout>>

\* people[i]->getdata() on a Doctor
EntryGetdataDoctor ==
    /\ hphase = "Getdata"
    /\ people[Len(people)].kind = "Doctor"
    /\ \E nameTok \in NameTokens, ageTok \in AgeTokens, specTok \in SpecialistTokens :
         LET g == DoctorGetdata(people[Len(people)], hcin_fail,
                                nameTok, ageTok, specTok)
         IN  /\ people' = [people EXCEPT ![Len(people)] = g.obj]
             /\ hcin_fail' = g.fail
    /\ populated' = populated + 1
    /\ hphase' = "Entry"
    /\ UNCHANGED <<n, doctor_count, patient_count, hout, hfreed>>

\* people[i]->getdata() on a Patient
EntryGetdataPatient ==
    /\ hphase = "Getdata"
    /\ people[Len(people)].kind = "Patient"
    /\ \E nameTok \in NameTokens, ageTok \in AgeTokens, dateTok \in AdmissionTokens :
         LET g == PatientGetdata(people[Len(people)], hcin_fail,
                                 nameTok, ageTok, dateTok)
         IN  /\ people' = [people EXCEPT ![Len(people)] = g.obj]
             /\ hcin_fail' = g.fail
    /\ populated' = populated + 1
    /\ hphase' = "Entry"
    /\ UNCHANGED <<n, doctor_count, patient_count, hout, hfreed>>

\* the entry loop ends; "--- Records ---" and the putdata loop
ShowRecords ==
    /\ hphase = "Entry"
    /\ ~EntryLoopCondition(Len(people), n.val)
    /\ hout' = hout \o PutAll(people, n.val)
    /\ hphase' = "CleanUp"
    /\ UNCHANGED <<n, people, doctor_count, patient_count, populated,
                   hcin_fail, hfreed>>

\* the delete loop; return 0
CleanUp ==
    /\ hphase = "CleanUp"
    /\ hfreed' = DeleteAll(hfreed, n.val)
    /\ hphase' = "Done"
    /\ UNCHANGED <<n, people, doctor_count, patient_count, populated,
                   hcin_fail, hout>>


\* ======================================================= q4_library.cpp
VARIABLES
    isAvailable,    \* Book::isAvailable, per book
    borrowedBooks,  \* Patron::borrowedBooks, per patron
    lout            \* what the latest Patron call wrote

libVars == <<isAvailable, borrowedBooks, lout>>

Books == 1..NumBooks
Patrons == 1..NumPatrons

\* A checkOut that does not test isAvailable.
CheckOutUnguarded(avail, b) ==
    [ok |-> TRUE, avail |-> [avail EXCEPT ![b] = FALSE]]

\* Book::checkOut on book b: the value returned and the flags afterwards
CheckOut(avail, b) ==
    IF avail[b]
      THEN [ok |-> TRUE, avail |-> [avail EXCEPT ![b] = FALSE]]
      ELSE [ok |-> FALSE, avail |-> avail]

\* Book::returnBook on book b
BookReturnBook(avail, b) == [avail EXCEPT ![b] = TRUE]

\* A search that does not compare: it stops at the first entry, if any.
FindFirstEntry(list, b) == IF Len(list) > 0 THEN 1 ELSE 0

\* the position the loop of Patron::returnBook stops at: the first entry
\* that is &book, or 0 when it reaches end()
Find(list, b) ==
    IF \E i \in 1..Len(list) : list[i] = b
      THEN CHOOSE i \in 1..Len(list) :
             list[i] = b /\ \A j \in 1..(i - 1) : list[j] # b
      ELSE 0

\* borrowedBooks.erase(it)
Erase(list, it) == SubSeq(list, 1, it - 1) \o SubSeq(list, it + 1, Len(list))

LibInit ==
    /\ isAvailable = [b \in Books |-> TRUE]
    /\ borrowedBooks = [p \in Patrons |-> <<>>]
    /\ lout = [msg |-> "", patron |-> 0, book |-> 0]

\* Patron::borrowBook(book) on patron p
BorrowBook(p, b) ==
    LET c == CheckOut(isAvailable, b) IN
    /\ isAvailable' = c.avail
    /\ borrowedBooks' = IF c.ok
                          THEN [borrowedBooks EXCEPT ![p] = Append(@, b)]
                          ELSE borrowedBooks
    /\ lout' = [msg |-> IF c.ok THEN "borrowed" ELSE "is not available",
                patron |-> p, book |-> b]

\* Patron::returnBook(book) on patron p
ReturnBook(p, b) ==
    LET it == Find(borrowedBooks[p], b) IN
    /\ isAvailable' = IF it # 0 THEN BookReturnBook(isAvailable, b)
                                ELSE isAvailable
    /\ borrowedBooks' = IF it # 0
                          THEN [borrowedBooks EXCEPT ![p] = Erase(@, it)]
                          ELSE borrowedBooks
    /\ lout' = [msg |-> IF it # 0 THEN "returned" ELSE "did not borrow",
                patron |-> p, book |-> b]


\* ====================================================== specifications
vars == <<txnVars, hospVars, libVars>>

\* The state of a program that is not the one running: as at its start, its
\* uninitialized int holding one fixed pattern.
TxnIdle == TxnInit /\ choice.val = -1
HospIdle == HospInit /\ n.val = -1

\* Each program is a process of its own and runs alone.
TransactionsNext ==
    \/ CaseIncome /\ UNCHANGED <<hospVars, libVars>>
    \/ CaseExpense /\ UNCHANGED <<hospVars, libVars>>
    \/ CaseDisplay /\ UNCHANGED <<hospVars, libVars>>
    \/ CaseExit /\ UNCHANGED <<hospVars, libVars>>
    \/ CaseDefault /\ UNCHANGED <<hospVars, libVars>>
    \/ TxnCleanup /\ UNCHANGED <<hospVars, libVars>>

HospitalNext ==
    \/ ReadCount /\ UNCHANGED <<txnVars, libVars>>
    \/ EntryNewDoctor /\ UNCHANGED <<txnVars, libVars>>
    \/ EntryNewPatient /\ UNCHANGED <<txnVars, libVars>>
    \/ EntryGetdataDoctor /\ UNCHANGED <<txnVars, libVars>>
    \/ EntryGetdataPatient /\ UNCHANGED <<txnVars, libVars>>
    \/ ShowRecords /\ UNCHANGED <<txnVars, libVars>>
    \/ CleanUp /\ UNCHANGED <<txnVars, libVars>>

LibraryNext ==
    \/ \E p \in Patrons, b \in Books :
         BorrowBook(p, b) /\ UNCHANGED <<txnVars, hospVars>>
    \/ \E p \in Patrons, b \in Books :
         ReturnBook(p, b) /\ UNCHANGED <<txnVars, hospVars>>

TransactionsInit == TxnInit /\ HospIdle /\ LibInit
HospitalInit == HospInit /\ TxnIdle /\ LibInit
LibraryInit == LibInit /\ TxnIdle /\ HospIdle

SpecTransactions == TransactionsInit /\ [][TransactionsNext]_vars
SpecHospital == HospitalInit /\ [][HospitalNext]_vars
SpecLibrary == LibraryInit /\ [][LibraryNext]_vars

\* ================================================================ claims
Doctors == SelectSeq(people, LAMBDA d : d.kind = "Doctor")
Patients == SelectSeq(people, LAMBDA d : d.kind = "Patient")

\* C1: the k-th Doctor constructed has doctor_id k and the k-th Patient
\* patient_id k, whatever the interleaving, and each counter counts the
\* records of its own variant only.
C1_SequentialIds ==
    /\ \A k \in 1..Len(Doctors) : Doctors[k].doctor_id = k
    /\ \A k \in 1..Len(Patients) : Patients[k].patient_id = k
    /\ doctor_count = Len(Doctors)
    /\ patient_count = Len(Patients)

\* Doctor, Patient, Doctor have been constructed, in that order.
C1_Witness ==
    /\ Len(people) >= 3
    /\ people[1].kind = "Doctor"
    /\ people[2].kind = "Patient"
    /\ people[3].kind = "Doctor"
    /\ people[3].doctor_id = 2

\* The record s of a display pass is the registry entry t, its amount shown
\* as amt.
ShownAs(s, t, amt) ==
    /\ s.label = (IF t.kind = "Income" THEN "[Income Transaction]"
                                       ELSE "[Expense Transaction]")
    /\ s.transaction_ID = t.transaction_ID.val
    /\ s.date = t.date
    /\ IF t.kind = "Income" THEN s.source = t.source
                            ELSE s.category = t.category
    /\ s.amount = amt

\* shown is a to six significant digits: a itself when a has no more than
\* six digits, and otherwise a multiple of the sixth digit's unit that is
\* no further than half that unit from a.
ToSixDigits(shown, a) ==
    IF a < 1000000 THEN shown = a
    ELSE LET unit == Pow10(NumDigits(a) - 6)
         IN  /\ shown % unit = 0
             /\ 2 * (shown - a) <= unit
             /\ 2 * (a - shown) <= unit

\* C2: a pass of the loop that takes choice 3 leaves the registry as it was
\* and shows each entry once, in registry order, every field with the value
\* populate stored.
C2_DisplayShowsStoredValues ==
    [][(phase = "Running" /\ choice'.val = 3) =>
         /\ transactions' = transactions
         /\ Len(console'.shown) = Len(transactions)
         /\ \A i \in 1..Len(transactions) :
              ShownAs(console'.shown[i], transactions[i],
                      transactions[i].amount.val)]_vars

\* What the display pass does keep of C2: order, one line group per entry,
\* the registry untouched, and every field but the amount exact; the amount
\* is shown to six significant digits.
DisplayInOrderSixDigits ==
    [][(phase = "Running" /\ choice'.val = 3) =>
         /\ transactions' = transactions
         /\ Len(console'.shown) = Len(transactions)
         /\ \A i \in 1..Len(transactions) :
              /\ ShownAs(console'.shown[i], transactions[i],
                         console'.shown[i].amount)
              /\ ToSixDigits(console'.shown[i].amount,
                             transactions[i].amount.val)]_vars

\* C3: a pass that reads a number other than 1, 2, 3, 4 reports the invalid
\* choice, leaves the registry as it was and the loop Running, with the
\* stream good for the next read.
C3_InvalidChoiceChangesNothing ==
    [][(phase = "Running" /\ got' = "extracted"
          /\ choice'.val \notin {1, 2, 3, 4}) =>
         /\ console' = [msg |-> "Invalid choice! Try again.", shown |-> <<>>]
         /\ transactions' = transactions
         /\ freed' = freed
         /\ phase' = "Running"
         /\ ~cin_fail']_vars

\* 99 was read with two records in the registry.
C3_Witness ==
    /\ got = "extracted"
    /\ choice.val = 99
    /\ console.msg = "Invalid choice! Try again."
    /\ Len(transactions) = 2
    /\ phase = "Running"

IsPrefix(u, v) == Len(u) <= Len(v) /\ SubSeq(v, 1, Len(u)) = u

\* C4: every pass of the loop keeps the registry as a prefix of the new one;
\* choice 1 adds one IncomeTransaction at the end, choice 2 one
\* ExpenseTransaction, any other choice nothing.
C4_AppendOnly ==
    [][phase = "Running" =>
         /\ IsPrefix(transactions, transactions')
         /\ choice'.val = 1 =>
              /\ Len(transactions') = Len(transactions) + 1
              /\ transactions'[Len(transactions')].kind = "Income"
         /\ choice'.val = 2 =>
              /\ Len(transactions') = Len(transactions) + 1
              /\ transactions'[Len(transactions')].kind = "Expense"
         /\ choice'.val \notin {1, 2} => transactions' = transactions]_vars

\* An expense was appended behind two entries that differ from it.
C4_Witness ==
    /\ Len(transactions) = 3
    /\ transactions[1].kind = "Income"
    /\ transactions[2].kind = "Income"
    /\ transactions[1] # transactions[2]
    /\ transactions[3].kind = "Expense"
    /\ choice.val = 2

\* C5: the loop is left only when the exit choice 4 has been read.
C5_ExitOnlyWhenRead ==
    phase # "Running" => (got = "extracted" /\ choice.val = 4)

\* C6: a pass whose choice is no number (the extraction fails and stores 0)
\* is an invalid-choice pass: the registry and the loop stay as they were,
\* and the stream is good, so that the choices that follow are read.
C6_MalformedChoiceRecovers ==
    [][(phase = "Running" /\ got' = "failed" /\ choice'.val = 0) =>
         /\ console'.msg = "Invalid choice! Try again."
         /\ transactions' = transactions
         /\ phase' = "Running"
         /\ ~cin_fail']_vars

\* Every int of a hospital record has been given a value.
FullySet(d) ==
    /\ d.age.set
    /\ d.kind = "Doctor" => d.doctor_specialist.set

\* C7, for the runs in which the record count was read: every record
\* written by putdata or displayInfo was populated, and every numeric field
\* of it has been given a value, an input or a zero.
C7_NoPartialRecordShown ==
    n.set =>
      /\ Len(hout) <= populated
      /\ \A i \in 1..Len(hout) : FullySet(people[i])
      /\ \A i \in 1..Len(console.shown) :
           transactions[i].transaction_ID.set /\ transactions[i].amount.set

\* The record of line i of the output is people[i].
LineOf(s, d) ==
    /\ s.label = d.kind
    /\ s.name = d.name
    /\ s.age = d.age.val
    /\ IF d.kind = "Doctor" THEN s.doctor_id = d.doctor_id
                            ELSE s.patient_id = d.patient_id

\* C8: for a count n >= 0: at most one record is not yet populated, and it is
\* the one just created; nothing is shown before n records are created and
\* populated; then the n records are shown once each in entry order, deleted
\* once each, and main returns: it never stops before.
C8_HospitalRun ==
    (hphase # "ReadCount" /\ n.val >= 0) =>
      /\ hphase \in {"Entry", "Getdata", "CleanUp", "Done"}
      /\ Len(people) <= n.val
      /\ Len(people) = populated + (IF hphase = "Getdata" THEN 1 ELSE 0)
      /\ Len(hfreed) = Len(people)
      /\ hphase \in {"Entry", "Getdata"} => hout = <<>>
      /\ hphase \in {"CleanUp", "Done"} =>
           /\ populated = n.val
           /\ Len(hout) = n.val
           /\ \A i \in 1..n.val : LineOf(hout[i], people[i])
      /\ \A i \in 1..Len(hfreed) :
           hfreed[i] = (IF hphase = "Done" THEN 1 ELSE 0)
      /\ hphase # "Done" => ENABLED HospitalNext

\* Three records were entered, shown and deleted, and main has returned.
C8_Witness ==
    /\ hphase = "Done"
    /\ n = Value(3)
    /\ Len(hout) = 3
    /\ hout[1].label = "Doctor"
    /\ hout[2].label = "Patient"
    /\ ~hcin_fail

\* Where book b is held: the patrons and the places in their lists.
Holdings(b) ==
    {<<p, i>> \in Patrons \X (1..NumBooks) :
       i <= Len(borrowedBooks[p]) /\ borrowedBooks[p][i] = b}

\* C9: a book is in at most one borrowed list, at most once, and it is
\* unavailable exactly when it is in one.
C9_OneHolder ==
    \A b \in Books :
      /\ Cardinality(Holdings(b)) <= 1
      /\ ~isAvailable[b] <=> Holdings(b) # {}
      /\ \A p \in Patrons : Len(borrowedBooks[p]) <= NumBooks

\* A patron has just borrowed a second book while another patron holds one.
C9_Witness ==
    \E p \in Patrons, b \in Books :
      /\ lout = [msg |-> "borrowed", patron |-> p, book |-> b]
      /\ Len(borrowedBooks[p]) = 2
      /\ borrowedBooks[p][2] = b
      /\ \E q \in Patrons : q # p /\ Len(borrowedBooks[q]) = 1

Holds(p, b) == \E i \in 1..Len(borrowedBooks[p]) : borrowedBooks[p][i] = b

\* C10: borrowBook on a book that is checked out, and returnBook by a patron
\* who does not hold the book, change no book's availability and no
\* patron's list.
C10_RejectedChangesNothing ==
    [][lout'.patron \in Patrons =>
         /\ (lout'.msg \in {"borrowed", "is not available"}
               /\ ~isAvailable[lout'.book]) =>
              /\ lout'.msg = "is not available"
              /\ isAvailable' = isAvailable
              /\ borrowedBooks' = borrowedBooks
         /\ (lout'.msg \in {"returned", "did not borrow"}
               /\ ~Holds(lout'.patron, lout'.book)) =>
              /\ lout'.msg = "did not borrow"
              /\ isAvailable' = isAvailable
              /\ borrowedBooks' = borrowedBooks]_vars

\* A patron who holds another book was refused the return of a book that a
\* second patron holds.
C10_Witness ==
    /\ lout.msg = "did not borrow"
    /\ ~isAvailable[lout.book]
    /\ borrowedBooks[lout.patron] # <<>>
    /\ ~Holds(lout.patron, lout.book)

====
